---- MODULE Spec2Model ----
(***************************************************************************)
(* bluen: local mirrors (Adapter, Device, Battery) of BlueZ objects on     *)
(* D-Bus.  The module models construction of an entity from a property     *)
(* snapshot, the PropertiesChanged handler of each entity, the property    *)
(* setters with their remote Set call, and the enumeration of devices.     *)
(*                                                                         *)
(* Every D-Bus value is written as a string token ("true", "v1", a path);  *)
(* the code never inspects a value, it only stores it (`value as T`).      *)
(***************************************************************************)
EXTENDS Naturals, Sequences, FiniteSets, TLC

VARIABLES
    kind,       \* which entity class the run follows: "Adapter", "Device", "Battery"
    watch,      \* the property names the run's inputs may name
    snapshot,   \* the property bag handed to fromDBusObject: [path, props]
    path,       \* the entity's _path
    built,      \* "no" before construction, then "yes" or "error" (fromDBusObject threw)
    fields,     \* the entity's private fields, keyed by the D-Bus property they mirror
    listener,   \* listenForChanges: "none", "pending" (awaiting the proxy), "registered",
                \* "failed" (the awaited getProxyObject rejected)
    lookup,     \* the constructor's Adapter.fromPath(...) promise: [status, arg]
    handler,    \* a Device handler suspended in `await Adapter.fromPath(value)`
    delivered,  \* the matching notifications handled so far, in delivery order
    suspended,  \* the handlers that began and have not finished: each awaits its
                \* Adapter.fromPath, or has rejected there
    writer,     \* for each field, which notification wrote it last (0: the constructor)
    calls,      \* the setProperty calls that have not settled, oldest first
    objects,    \* what GetManagedObjects returns: entries [path, ifaces], in order
    adapter,    \* the path of the Adapter passed to Device.allOfAdapter; "" when the
                \* run calls Bluez.getAdapters
    query,      \* the enumeration call: "idle", "proxy", "pending", then "resolved",
                \* "threw" (a fromDBusObject threw) or "failed" (an awaited call rejected)
    devices,    \* the Devices allOfAdapter resolved to: records [path, fields]
    adapters,   \* the Adapters getAdapters resolved to: records [path, fields]
    queries,    \* how many times GetManagedObjects has been called
    constructed, \* the entities the enumeration constructed, returned or not
    subscribed, \* how many of them have registered their PropertiesChanged listener
    subscriptions, \* the PropertiesChanged listeners attached so far, each with the
                \* path of the proxy object it is attached to, in order
    reads,      \* Battery.ofDevice: the properties asked for with Properties.Get, in order
    remote,     \* the value the remote object holds for the one property the run sets
    signals,    \* the PropertiesChanged signals the remote object emitted for it that
                \* have not reached the entity's connection yet, oldest first
    sync,       \* what happened to that property: [setter, foreign, lost, emitted]
    last        \* observation of the operation that completed last

\* The inputs of a run: fixed by the initial state, but for the snapshot that
\* Battery.ofDevice reads property by property.
inputVars == <<kind, watch, snapshot>>
\* The entity and the promises its constructor started.
entityVars == <<path, built, fields, listener, lookup>>
notifyVars == <<handler, delivered, suspended, writer>>
enumVars ==
    <<objects, adapter, query, devices, adapters, queries, constructed, subscribed,
      subscriptions, reads, remote, signals, sync>>

vars == <<inputVars, entityVars, notifyVars, calls, enumVars, last>>

(***************************************************************************)
(* Bounds                                                                  *)
(***************************************************************************)
\* Number of property names a run's notifications and snapshots range over.
MaxProps == 2

\* Number of setProperty calls that may be unsettled at once.
MaxCalls == 2

\* Number of objects GetManagedObjects returns.
MaxObjects == 3

\* Number of notifications the bus delivers to a Device whose handlers overlap.
MaxNotifications == 2

(***************************************************************************)
(* Interfaces, properties and values                                       *)
(***************************************************************************)
Kinds == {"Adapter", "Device", "Battery"}

AdapterIface == "org.bluez.Adapter1"
DeviceIface == "org.bluez.Device1"
BatteryIface == "org.bluez.Battery1"

Interfaces == {AdapterIface, DeviceIface, BatteryIface}

Iface(k) ==
    CASE k = "Adapter" -> AdapterIface
      [] k = "Device" -> DeviceIface
      [] k = "Battery" -> BatteryIface

\* The cases of the switch in Adapter.listenForChanges, one per field.
AdapterProps ==
    {"Address", "Name", "Alias", "Class", "Powered", "Discoverable", "Pairable",
     "PairableTimeout", "DiscoverableTimeout", "Discovering", "UUIDs", "Modalias"}

\* Properties Adapter.fromDBusObject reads with `.value` (no `?.`).
AdapterRequired == AdapterProps \ {"Modalias"}

\* The cases of the switch in Device.listenForChanges, one per field.
DeviceProps ==
    {"Name", "Icon", "Class", "Appearance", "UUIDs", "Paired", "Connected",
     "Trusted", "Blocked", "Alias", "Adapter", "LegacyPairing", "Modalias",
     "RSSI", "TxPower", "ManufacturerData", "ServiceData", "GattServices"}

\* Properties Device.fromDBusObject reads with `.value` (no `?.`).
DeviceRequired ==
    {"Paired", "Connected", "Trusted", "Blocked", "Alias", "Adapter", "LegacyPairing"}

\* The cases of the switch in Battery.listenForChanges.
BatteryProps == {"Percentage", "Source"}

PropsOf(k) ==
    CASE k = "Adapter" -> AdapterProps
      [] k = "Device" -> DeviceProps
      [] k = "Battery" -> BatteryProps

RequiredOf(k) ==
    CASE k = "Adapter" -> AdapterRequired
      [] k = "Device" -> DeviceRequired
      [] k = "Battery" -> {"Percentage"}

\* Property names a BlueZ object may announce that the entity has no case for.
UnknownProps(k) ==
    CASE k = "Adapter" -> {"AddressType", "Roles"}
      [] k = "Device" -> {"AddressType", "ServicesResolved"}
      [] k = "Battery" -> {"Voltage", "Health"}

NamesOf(k) == PropsOf(k) \cup UnknownProps(k)

Null == "null"
Unset == "undefined"

BoolProps ==
    {"Powered", "Discoverable", "Pairable", "Discovering", "Paired", "Connected",
     "Trusted", "Blocked", "LegacyPairing"}

AdapterPaths == {"/org/bluez/hci0", "/org/bluez/hci1"}

\* The values a property takes in the runs: two per property the entities store.
ValuesOf(prop) ==
    IF prop \in BoolProps THEN {"false", "true"}
    ELSE IF prop = "Adapter" THEN AdapterPaths
    ELSE IF prop \in AdapterProps \cup DeviceProps \cup BatteryProps THEN {"v1", "v2"}
    ELSE {"x"}

FirstValue(prop) ==
    IF prop \in BoolProps THEN "false"
    ELSE IF prop = "Adapter" THEN "/org/bluez/hci0"
    ELSE "v1"

PathOf(k) == IF k = "Adapter" THEN "/org/bluez/hci0" ELSE "/org/bluez/hci0/dev_X"

(***************************************************************************)
(* Construction from a snapshot                                            *)
(***************************************************************************)
NoFields == [p \in {} |-> Null]

\* A constructor without `?? null`: an absent optional property stays undefined.
AdapterFromDBusObjectNoDefault(data) ==
    IF AdapterRequired \subseteq DOMAIN data.props
    THEN [ok |-> TRUE,
          path |-> data.path,
          fields |-> [p \in AdapterProps |->
                        IF p \in DOMAIN data.props THEN data.props[p] ELSE Unset]]
    ELSE [ok |-> FALSE, path |-> "", fields |-> NoFields]

\* A factory that reads every property with `?.`: nothing is required.
AdapterFromDBusObjectLenient(data) ==
    [ok |-> TRUE,
     path |-> data.path,
     fields |-> [p \in AdapterProps |->
                   IF p \in DOMAIN data.props THEN data.props[p] ELSE Null]]

\* `data[1].X.value` throws a TypeError when X is absent from the bag.
\* The arguments of `new Adapter(...)` are evaluated before the constructor runs.
AdapterFromDBusObject(data) ==
    IF AdapterRequired \subseteq DOMAIN data.props
    THEN [ok |-> TRUE,
          path |-> data.path,
          fields |-> [p \in AdapterProps |->
                        IF p \in DOMAIN data.props THEN data.props[p] ELSE Null]]
    ELSE [ok |-> FALSE, path |-> "", fields |-> NoFields]

\* A constructor that stores the adapter's path at once, as it stores the rest.
DeviceFromDBusObjectEager(data) ==
    IF DeviceRequired \subseteq DOMAIN data.props
    THEN [ok |-> TRUE,
          path |-> data.path,
          fields |-> [p \in DeviceProps |->
                        IF p \in DOMAIN data.props THEN data.props[p] ELSE Null]]
    ELSE [ok |-> FALSE, path |-> "", fields |-> NoFields]

\* The Device constructor: every field but _adapter is assigned from the bag;
\* _adapter is assigned later, by the `.then` callback of Adapter.fromPath.
DeviceFromDBusObject(data) ==
    IF DeviceRequired \subseteq DOMAIN data.props
    THEN [ok |-> TRUE,
          path |-> data.path,
          fields |-> [p \in DeviceProps |->
                        IF p = "Adapter" THEN Unset
                        ELSE IF p \in DOMAIN data.props THEN data.props[p] ELSE Null]]
    ELSE [ok |-> FALSE, path |-> "", fields |-> NoFields]

\* new Battery(path, {percentage, source}): data.percentage as it is, source ?? null.
BatteryConstructor(data) ==
    [ok |-> TRUE,
     path |-> data.path,
     fields |-> [p \in BatteryProps |->
                   IF p \in DOMAIN data.props THEN data.props[p]
                   ELSE IF p = "Source" THEN Null ELSE Unset]]

FromDBusObject(k, data) ==
    CASE k = "Adapter" -> AdapterFromDBusObject(data)
      [] k = "Device" -> DeviceFromDBusObject(data)
      [] k = "Battery" -> BatteryConstructor(data)

\* Adapter.fromPath(p): the Adapter object the lookup resolves to, for path p.
AdapterFromPath(p) == "Adapter@" \o p

NoLookup == [status |-> "none", arg |-> ""]

\* The promise the Device constructor starts and does not await.
ConstructorLookup(k, data) ==
    IF k = "Device" THEN [status |-> "pending", arg |-> data.props["Adapter"]]
    ELSE NoLookup

(***************************************************************************)
(* The PropertiesChanged handlers                                          *)
(*                                                                         *)
(* A run of a handler: the fields so far, the pairs still to process, the  *)
(* assignments made, the 'change' events emitted, and where it stands.     *)
(***************************************************************************)
StartRun(f, changed) ==
    [fields |-> f, rest |-> changed, applied |-> {}, emitted |-> 0, state |-> "running"]

\* An assignment that keeps a value the field already holds (first write wins).
AssignOnceAndEmit(run, prop, value) ==
    [run EXCEPT !.fields = [@ EXCEPT ![prop] = IF @ = Null THEN value ELSE @],
                !.applied = @ \cup {[prop |-> prop, value |-> value]},
                !.emitted = @ + 1,
                !.rest = Tail(@)]

\* An assignment that merges the value into what the field holds.
AssignMergedAndEmit(run, prop, value) ==
    [run EXCEPT !.fields = [@ EXCEPT ![prop] = @ \o "," \o value],
                !.applied = @ \cup {[prop |-> prop, value |-> value]},
                !.emitted = @ + 1,
                !.rest = Tail(@)]

\* `this._x = value` followed by `break` and `this.emit('change')`.
AssignAndEmit(run, prop, value) ==
    [run EXCEPT !.fields = [@ EXCEPT ![prop] = value],
                !.applied = @ \cup {[prop |-> prop, value |-> value]},
                !.emitted = @ + 1,
                !.rest = Tail(@)]

\* `this._x = value` followed by `break`; the Battery loop emits nothing.
AssignOnly(run, prop, value) ==
    [run EXCEPT !.fields = [@ EXCEPT ![prop] = value],
                !.applied = @ \cup {[prop |-> prop, value |-> value]},
                !.rest = Tail(@)]

\* A default case that leaves the loop instead of going on to the next pair.
WarnAndReturn(run) == [run EXCEPT !.rest = <<>>]

\* `default: console.warn(...); continue`.
WarnAndContinue(run) == [run EXCEPT !.rest = Tail(@)]

RECURSIVE AdapterLoop(_)
AdapterLoop(run) ==
    IF run.rest = <<>> THEN [run EXCEPT !.state = "finished"]
    ELSE LET pair == Head(run.rest) IN
         IF pair.prop \in AdapterProps
         THEN AdapterLoop(AssignAndEmit(run, pair.prop, pair.value))
         ELSE AdapterLoop(WarnAndContinue(run))

\* The Device loop stops at `await Adapter.fromPath(value)`; DeviceResume takes it up.
RECURSIVE DeviceLoop(_)
DeviceLoop(run) ==
    IF run.rest = <<>> THEN [run EXCEPT !.state = "finished"]
    ELSE LET pair == Head(run.rest) IN
         IF pair.prop = "Adapter" THEN [run EXCEPT !.state = "awaiting"]
         ELSE IF pair.prop \in DeviceProps
         THEN DeviceLoop(AssignAndEmit(run, pair.prop, pair.value))
         ELSE DeviceLoop(WarnAndContinue(run))

\* The awaited lookup resolved: `this._adapter = <adapter>`, break, emit, next pair.
DeviceResume(run, resolved) ==
    DeviceLoop(AssignAndEmit([run EXCEPT !.state = "running"], "Adapter", resolved))

\* The awaited lookup rejected: the async handler rejects where it stands.
DeviceReject(run) == [run EXCEPT !.state = "rejected"]

RECURSIVE BatteryLoop(_)
BatteryLoop(run) ==
    IF run.rest = <<>>
    THEN [run EXCEPT !.emitted = @ + 1, !.state = "finished"]
    ELSE LET pair == Head(run.rest) IN
         IF pair.prop \in BatteryProps
         THEN BatteryLoop(AssignOnly(run, pair.prop, pair.value))
         ELSE BatteryLoop(WarnAndContinue(run))

\* A listener that handles the signals of every interface of the object.
IfaceAny(k, iface) == iface \in Interfaces

\* `if (iface !== '<own interface>') return`.
IfaceMatches(k, iface) == iface = Iface(k)

\* The listener body up to its end or its first await.
OnPropertiesChanged(k, iface, f, changed) ==
    IF ~IfaceMatches(k, iface)
    THEN [StartRun(f, changed) EXCEPT !.state = "ignored"]
    ELSE CASE k = "Adapter" -> AdapterLoop(StartRun(f, changed))
           [] k = "Device" -> DeviceLoop(StartRun(f, changed))
           [] k = "Battery" -> BatteryLoop(StartRun(f, changed))

(***************************************************************************)
(* Inputs: snapshots and notifications over the watched names              *)
(***************************************************************************)
FullSnapshot(k) == [path |-> PathOf(k), props |-> [p \in PropsOf(k) |-> FirstValue(p)]]

RequiredSnapshot(k) ==
    [path |-> PathOf(k), props |-> [p \in RequiredOf(k) |-> FirstValue(p)]]

RECURSIVE Orderings(_)
Orderings(S) ==
    IF S = {} THEN {<<>>}
    ELSE UNION {{<<x>> \o t : t \in Orderings(S \ {x})} : x \in S}

RECURSIVE ChangesOver(_)
ChangesOver(names) ==
    IF names = <<>> THEN {<<>>}
    ELSE {<<[prop |-> Head(names), value |-> v]>> \o t :
            v \in ValuesOf(Head(names)), t \in ChangesOver(Tail(names))}

\* Every `changed` dictionary over the names W: distinct keys, in any order.
Changes(W) == UNION {ChangesOver(o) : o \in UNION {Orderings(S) : S \in SUBSET W}}

WatchSets(k) == {W \in SUBSET NamesOf(k) : Cardinality(W) = MaxProps}

\* The property bags that carry every property outside W with its first value
\* and each property of W with any value or not at all.
Bags(k, W) ==
    {[p \in (PropsOf(k) \ Absent) |-> IF p \in W THEN vs[p] ELSE FirstValue(p)] :
        Absent \in SUBSET W, vs \in [W -> {"false", "true", "v1", "v2"} \cup AdapterPaths]}

Snapshots(k, W) ==
    {[path |-> PathOf(k), props |-> b] :
        b \in {c \in Bags(k, W) : \A p \in DOMAIN c : c[p] \in ValuesOf(p)}}

(***************************************************************************)
(* Observations                                                            *)
(***************************************************************************)
NoHandler == [state |-> "none"]

NoWriter == [p \in {} |-> 0]

\* No property followed at the remote object.
NoSync == [setter |-> "none", foreign |-> FALSE, lost |-> FALSE, emitted |-> 0]

NoLast ==
    [op |-> "none", iface |-> "", changed |-> <<>>, applied |-> {}, emitted |-> 0,
     unchanged |-> TRUE, awaited |-> FALSE, outcome |-> "none"]

Handled(iface, changed, run, same, awaited) ==
    [op |-> "notify", iface |-> iface, changed |-> changed, applied |-> run.applied,
     emitted |-> run.emitted, unchanged |-> same, awaited |-> awaited,
     outcome |-> run.state]

(***************************************************************************)
(* The steps of a constructed entity                                       *)
(***************************************************************************)
\* The state right after `fromDBusObject(data)` returned the entity.
Constructed(k, data) ==
    /\ path = FromDBusObject(k, data).path
    /\ fields = FromDBusObject(k, data).fields
    /\ built = "yes"
    /\ listener = "pending"
    /\ lookup = ConstructorLookup(k, data)

NoEnumeration ==
    /\ objects = <<>>
    /\ adapter = ""
    /\ query = "idle"
    /\ devices = <<>>
    /\ adapters = <<>>
    /\ queries = 0
    /\ constructed = <<>>
    /\ subscribed = 0
    /\ subscriptions = <<>>
    /\ remote = ""
    /\ signals = <<>>
    /\ sync = NoSync
    /\ reads = <<>>

\* A listenForChanges that may run again for an entity that already listens.
RegisterListenerAgain ==
    /\ built = "yes"
    /\ listener \in {"pending", "registered"}
    /\ Len(subscriptions) <= 1
    /\ listener' = "registered"
    /\ subscriptions' = Append(subscriptions, [path |-> path])
    /\ UNCHANGED <<inputVars, path, built, fields, lookup, notifyVars, calls, objects, adapter,
                   query, devices, adapters, queries, constructed, subscribed, reads, remote,
                   signals, sync, last>>

\* listenForChanges: the awaited getProxyObject resolved, propManager.on(...) ran.
RegisterListener ==
    /\ built = "yes"
    /\ listener = "pending"
    /\ listener' = "registered"
    /\ subscriptions' = Append(subscriptions, [path |-> path])
    /\ UNCHANGED <<inputVars, path, built, fields, lookup, notifyVars, calls, objects, adapter,
                   query, devices, adapters, queries, constructed, subscribed, reads, remote,
                   signals, sync, last>>

\* The bus delivers PropertiesChanged(iface, changed) to the registered listener,
\* which runs to its end or to its first await.
Handle(iface, changed) ==
    /\ listener = "registered"
    /\ handler = NoHandler
    /\ LET run == OnPropertiesChanged(kind, iface, fields, changed) IN
       /\ fields' = run.fields
       /\ IF run.state = "awaiting"
          THEN /\ handler' = [state |-> "awaiting", iface |-> iface,
                              changed |-> changed, run |-> run,
                              unchanged |-> (run.fields = fields)]
               /\ last' = last
          ELSE /\ handler' = handler
               /\ last' = Handled(iface, changed, run, run.fields = fields, FALSE)
    /\ UNCHANGED <<inputVars, path, built, listener, lookup, calls, enumVars>>

\* The Adapter.fromPath awaited by the suspended handler resolves: the handler
\* goes on from the fields as they are now.
HandlerLookupResolved ==
    /\ handler.state = "awaiting"
    /\ LET run == DeviceResume([handler.run EXCEPT !.fields = fields],
                               AdapterFromPath(Head(handler.run.rest).value)) IN
       /\ fields' = run.fields
       /\ last' = Handled(handler.iface, handler.changed, run,
                          handler.unchanged /\ run.fields = fields, TRUE)
    /\ handler' = NoHandler
    /\ UNCHANGED <<inputVars, path, built, listener, lookup, delivered, suspended, writer,
                   calls, enumVars>>

\* The Adapter.fromPath awaited by the suspended handler rejects.
HandlerLookupRejected ==
    /\ handler.state = "awaiting"
    /\ last' = Handled(handler.iface, handler.changed, DeviceReject(handler.run),
                       handler.unchanged, TRUE)
    /\ handler' = NoHandler
    /\ UNCHANGED <<inputVars, entityVars, delivered, suspended, writer, calls, enumVars>>

\* Device constructor: Adapter.fromPath(data.adapter).then(a => this._adapter = a).
ConstructorLookupResolved ==
    /\ built = "yes"
    /\ lookup.status = "pending"
    /\ fields' = [fields EXCEPT !["Adapter"] = AdapterFromPath(lookup.arg)]
    /\ lookup' = [lookup EXCEPT !.status = "resolved"]
    /\ UNCHANGED <<inputVars, path, built, listener, notifyVars, calls, enumVars, last>>

\* The constructor's lookup rejects: no handler is attached, _adapter stays unset.
ConstructorLookupRejected ==
    /\ built = "yes"
    /\ lookup.status = "pending"
    /\ lookup' = [lookup EXCEPT !.status = "rejected"]
    /\ UNCHANGED <<inputVars, path, built, fields, listener, notifyVars, calls, enumVars, last>>

(***************************************************************************)
(* SpecNotify: an entity built from a snapshot receives a PropertiesChanged *)
(* signal, which its listener handles to the end.  A handler reads nothing *)
(* but the signal, so one signal per run shows all that a handler can do.  *)
(***************************************************************************)
InitNotify ==
    /\ kind \in Kinds
    /\ watch \in WatchSets(kind)
    /\ snapshot \in {FullSnapshot(kind), RequiredSnapshot(kind)}
    /\ Constructed(kind, snapshot)
    /\ handler = NoHandler
    /\ delivered = <<>>
    /\ suspended = <<>>
    /\ writer = NoWriter
    /\ calls = <<>>
    /\ NoEnumeration
    /\ last = NoLast

Deliver ==
    /\ last.op = "none"
    /\ \E iface \in Interfaces, changed \in Changes(watch) :
          /\ Handle(iface, changed)
          /\ UNCHANGED <<delivered, suspended, writer>>

NextNotify ==
    \/ RegisterListener
    \/ Deliver
    \/ HandlerLookupResolved
    \/ HandlerLookupRejected
    \/ ConstructorLookupResolved
    \/ ConstructorLookupRejected

SpecNotify == InitNotify /\ [][NextNotify]_vars

(***************************************************************************)
(* Claims about one handled notification (SpecNotify)                      *)
(***************************************************************************)
\* What a recognized pair stores: the value, or for a Device's Adapter pair the
\* Adapter object resolved from the path the pair carries.
StoredValue(k, pair) ==
    IF k = "Device" /\ pair.prop = "Adapter" THEN AdapterFromPath(pair.value)
    ELSE pair.value

RecognizedPairs(k, changed) ==
    {i \in DOMAIN changed : changed[i].prop \in PropsOf(k)}

HandledMatching == last.op = "notify" /\ last.iface = Iface(kind)

HandledOther == last.op = "notify" /\ last.iface # Iface(kind)

\* C1: a PropertiesChanged notification whose interface name is not the
\* entity's own leaves every field as it was and raises no 'change' event,
\* whatever names and values it carries (Adapter, Device and Battery).
C1_OtherInterfaceIgnored ==
    HandledOther =>
        /\ last.unchanged
        /\ last.emitted = 0
        /\ last.applied = {}
        /\ last.outcome = "ignored"

\* A notification of another interface was handled although it named a
\* property of the entity with a value its field did not hold.
C1_Witness ==
    /\ HandledOther
    /\ \E i \in RecognizedPairs(kind, last.changed) :
          /\ last.changed[i].prop # "Adapter"
          /\ fields[last.changed[i].prop] # last.changed[i].value

\* C2: when the handler of a matching notification has finished, every
\* recognized property of the notification has been assigned (for a Device's
\* Adapter pair: the Adapter resolved from the pair's path), whether or not
\* unrecognized names came before it; every field but a Device's adapter
\* reference, which the constructor's lookup also writes, holds the value.
C2_RecognizedAllAssigned ==
    (HandledMatching /\ last.outcome = "finished") =>
        \A i \in RecognizedPairs(kind, last.changed) :
            LET pair == last.changed[i] IN
            /\ [prop |-> pair.prop, value |-> StoredValue(kind, pair)] \in last.applied
            /\ (kind = "Device" /\ pair.prop = "Adapter") \/ fields[pair.prop] = pair.value

\* A finished handler met an unrecognized name first and a recognized one,
\* carrying a value the field did not hold before, after it.
C2_Witness ==
    /\ HandledMatching /\ last.outcome = "finished"
    /\ Len(last.changed) >= 2
    /\ last.changed[1].prop \notin PropsOf(kind)
    /\ last.changed[2].prop \in PropsOf(kind)
    /\ ~last.unchanged

\* C3 (as claimed): a matching notification with at least one recognized
\* property raises exactly one 'change' event for the whole notification.
C3_OneChangeEventPerNotification ==
    (HandledMatching /\ last.outcome = "finished"
        /\ RecognizedPairs(kind, last.changed) # {}) => last.emitted = 1

\* C4 (as claimed): a matching notification with no recognized property (or
\* no property at all) changes no field and raises no 'change' event.
C4_NothingRecognizedNoChange ==
    (HandledMatching /\ RecognizedPairs(kind, last.changed) = {}) =>
        /\ last.unchanged
        /\ last.emitted = 0

(***************************************************************************)
(* SpecUnion: an Adapter or a Battery handles two matching notifications,  *)
(* N and then N+1.                                                         *)
(***************************************************************************)
InitUnion ==
    /\ kind \in {"Adapter", "Battery"}
    /\ watch \in WatchSets(kind)
    /\ snapshot = RequiredSnapshot(kind)
    /\ Constructed(kind, snapshot)
    /\ handler = NoHandler
    /\ delivered = <<>>
    /\ suspended = <<>>
    /\ writer = NoWriter
    /\ calls = <<>>
    /\ NoEnumeration
    /\ last = NoLast

DeliverMatching ==
    /\ Len(delivered) < 2
    /\ \E changed \in Changes(watch) :
          /\ Handle(Iface(kind), changed)
          /\ delivered' = Append(delivered, changed)
          /\ UNCHANGED <<suspended, writer>>

NextUnion ==
    \/ RegisterListener
    \/ DeliverMatching

SpecUnion == InitUnion /\ [][NextUnion]_vars

Keys(changed) == {changed[i].prop : i \in DOMAIN changed}

NotIn(changed, pair) == pair.prop \notin Keys(changed)

\* The key-wise union of two notifications: the pairs of `first` whose key
\* `second` does not carry, then the pairs of `second`.
KeywiseUnion(first, second) ==
    LET Kept(pair) == NotIn(second, pair) IN SelectSeq(first, Kept) \o second

\* C5: for an Adapter or a Battery, the fields after handling N and then N+1
\* are the fields after handling, from the same start, the one notification
\* that is their key-wise union with N+1's value for a key of both.
C5_TwoNotificationsAsUnion ==
    Len(delivered) = 2 =>
        fields = OnPropertiesChanged(kind, Iface(kind),
                                     FromDBusObject(kind, snapshot).fields,
                                     KeywiseUnion(delivered[1], delivered[2])).fields

\* Both notifications were handled, they name a common recognized property
\* with different values, and the first names one the second does not.
C5_Witness ==
    /\ Len(delivered) = 2
    /\ \E i \in DOMAIN delivered[1], j \in DOMAIN delivered[2] :
          /\ delivered[1][i].prop = delivered[2][j].prop
          /\ delivered[1][i].prop \in PropsOf(kind)
          /\ delivered[1][i].value # delivered[2][j].value
          /\ fields[delivered[2][j].prop] = delivered[2][j].value
    /\ \E i \in DOMAIN delivered[1] :
          /\ delivered[1][i].prop \in PropsOf(kind)
          /\ NotIn(delivered[2], delivered[1][i])
          /\ fields[delivered[1][i].prop] = delivered[1][i].value
          /\ FromDBusObject(kind, snapshot).fields[delivered[1][i].prop] # delivered[1][i].value

(***************************************************************************)
(* SpecConstruct: fromDBusObject is called with a snapshot that may lack   *)
(* properties; what it built goes on to register its listener and, for a   *)
(* Device, to resolve its adapter.                                         *)
(***************************************************************************)
InitConstruct ==
    /\ kind \in {"Adapter", "Device"}
    /\ watch \in {W \in SUBSET PropsOf(kind) : Cardinality(W) = MaxProps}
    /\ snapshot \in Snapshots(kind, watch)
    /\ path = ""
    /\ built = "no"
    /\ fields = NoFields
    /\ listener = "none"
    /\ lookup = NoLookup
    /\ handler = NoHandler
    /\ delivered = <<>>
    /\ suspended = <<>>
    /\ writer = NoWriter
    /\ calls = <<>>
    /\ NoEnumeration
    /\ last = NoLast

\* Adapter.fromDBusObject(data) / Device.fromDBusObject(data): the reads of the
\* bag, then the constructor, which ends by calling listenForChanges().
Construct ==
    /\ built = "no"
    /\ LET made == FromDBusObject(kind, snapshot) IN
       IF made.ok
       THEN /\ built' = "yes"
            /\ path' = made.path
            /\ fields' = made.fields
            /\ listener' = "pending"
            /\ lookup' = ConstructorLookup(kind, snapshot)
       ELSE /\ built' = "error"
            /\ UNCHANGED <<path, fields, listener, lookup>>
    /\ UNCHANGED <<inputVars, notifyVars, calls, enumVars, last>>

NextConstruct ==
    \/ Construct
    \/ RegisterListener
    \/ ConstructorLookupResolved
    \/ ConstructorLookupRejected

SpecConstruct == InitConstruct /\ [][NextConstruct]_vars

HasRequired == RequiredOf(kind) \subseteq DOMAIN snapshot.props

SnapshotValue(p) == IF p \in DOMAIN snapshot.props THEN snapshot.props[p] ELSE Null

\* C6 (as claimed): from a snapshot with all required properties construction
\* succeeds, path is the snapshot's path, and every field holds the snapshot's
\* value for its property, or null when the property is absent.
C6_EveryFieldFromSnapshot ==
    HasRequired =>
        /\ built # "error"
        /\ built = "yes" =>
              /\ path = snapshot.path
              /\ \A p \in PropsOf(kind) : fields[p] = SnapshotValue(p)

\* C6 (amended): the same for every field but a Device's adapter reference,
\* which is unset when construction returns and until the constructor's lookup
\* resolves, and is then the Adapter resolved from the snapshot's Adapter path.
C6_FieldsFromSnapshotButAdapter ==
    HasRequired =>
        /\ built # "error"
        /\ built = "yes" =>
              /\ path = snapshot.path
              /\ \A p \in PropsOf(kind) :
                    IF kind = "Device" /\ p = "Adapter"
                    THEN fields[p] = IF lookup.status = "resolved"
                                     THEN AdapterFromPath(snapshot.props[p])
                                     ELSE Unset
                    ELSE fields[p] = SnapshotValue(p)

\* Built from a snapshot that lacks an optional property and carries another
\* with its second value: an Adapter without Modalias, a Device without one of
\* its optional properties.
C6_Witness ==
    /\ built = "yes"
    /\ \E p \in PropsOf(kind) \ RequiredOf(kind) :
          p \notin DOMAIN snapshot.props /\ fields[p] = Null
    /\ \E p \in DOMAIN snapshot.props : snapshot.props[p] # FirstValue(p)
    /\ kind = "Adapter" => "Modalias" \notin DOMAIN snapshot.props

\* C7: from a snapshot that lacks a required property no entity is built:
\* fromDBusObject throws, no field is set and listenForChanges is never called,
\* so no subscription is opened for the path, and no adapter lookup is started.
C7_MissingRequiredFails ==
    ~HasRequired =>
        /\ built \in {"no", "error"}
        /\ path = ""
        /\ fields = NoFields
        /\ listener = "none"
        /\ lookup = NoLookup

\* fromDBusObject threw on a snapshot without a required property.
C7_Witness ==
    /\ built = "error"
    /\ ~HasRequired
    /\ listener = "none"

(***************************************************************************)
(* The property setters and setProperty                                    *)
(***************************************************************************)
\* The properties that have a `set` accessor.
AdapterMutable ==
    {"Alias", "Powered", "Discoverable", "Pairable", "PairableTimeout",
     "DiscoverableTimeout"}

DeviceMutable == {"Trusted", "Blocked", "Alias"}

MutableOf(k) ==
    CASE k = "Adapter" -> AdapterMutable
      [] k = "Device" -> DeviceMutable
      [] k = "Battery" -> {}

\* Setters that all tag their value as a string.
SignatureAlwaysString(prop) == "s"

\* The signature each setter passes to setProperty.
Signature(prop) ==
    CASE prop = "Alias" -> "s"
      [] prop \in {"PairableTimeout", "DiscoverableTimeout"} -> "u"
      [] OTHER -> "b"

\* A setter that leaves the field for the reply of the remote call to write.
SetFieldOnReply(f, prop, v) == f

\* The first statement of a setter: `this._x = v`.
SetField(f, prop, v) == [f EXCEPT ![prop] = v]

\* The second statement: setProperty(prop, signature, v), not awaited.  The call
\* first awaits getProxyObject ("proxy"), then propManager.Set ("issued").
SetPropertyCall(k, p, prop, v) ==
    [path |-> p, iface |-> Iface(k), prop |-> prop, signature |-> Signature(prop),
     value |-> v, stage |-> "proxy"]

\* A failure handler that undoes the setter's write.
SetRejectedUndo(f, call) == [f EXCEPT ![call.prop] = Null]

\* setProperty rejects: the promise is dropped by the setter, no field is touched.
SetRejected(f, call) == f

Without(seq, i) == SubSeq(seq, 1, i - 1) \o SubSeq(seq, i + 1, Len(seq))

SetObserved(op, call, same) ==
    [op |-> op, prop |-> call.prop, value |-> call.value, emitted |-> 0,
     unchanged |-> same]

\* `entity.<prop> = v`.
Set ==
    /\ built = "yes"
    /\ Len(calls) < MaxCalls
    /\ \E prop \in watch \cap MutableOf(kind) : \E v \in ValuesOf(prop) :
          LET call == SetPropertyCall(kind, path, prop, v) IN
          /\ fields' = SetField(fields, prop, v)
          /\ calls' = Append(calls, call)
          /\ last' = SetObserved("set", call, fields' = fields)
    /\ UNCHANGED <<inputVars, path, built, listener, lookup, notifyVars, enumVars>>

\* setProperty: getProxyObject resolved, propManager.Set(...) is sent.
IssueSet ==
    /\ \E i \in DOMAIN calls :
          /\ calls[i].stage = "proxy"
          /\ calls' = [calls EXCEPT ![i].stage = "issued"]
          /\ last' = SetObserved("issued", calls[i], TRUE)
    /\ UNCHANGED <<inputVars, entityVars, notifyVars, enumVars>>

\* propManager.Set(...) resolved: setProperty's promise resolves.
SetResolves ==
    /\ \E i \in DOMAIN calls :
          /\ calls[i].stage = "issued"
          /\ calls' = Without(calls, i)
          /\ last' = SetObserved("confirmed", calls[i], TRUE)
    /\ UNCHANGED <<inputVars, entityVars, notifyVars, enumVars>>

\* getProxyObject or propManager.Set rejected: setProperty's promise rejects.
SetRejects ==
    /\ \E i \in DOMAIN calls :
          /\ fields' = SetRejected(fields, calls[i])
          /\ calls' = Without(calls, i)
          /\ last' = SetObserved("failed", calls[i], fields' = fields)
    /\ UNCHANGED <<inputVars, path, built, listener, lookup, notifyVars, enumVars>>

\* Any PropertiesChanged signal over the watched names, at any time.
Notify ==
    \E iface \in Interfaces, changed \in Changes(watch) :
        /\ Handle(iface, changed)
        /\ UNCHANGED <<delivered, suspended, writer>>

(***************************************************************************)
(* SpecSet: the setters of one mutable property of an Adapter or a Device, *)
(* their remote calls, and the notifications about the property.           *)
(***************************************************************************)
InitSet ==
    /\ kind \in {"Adapter", "Device"}
    /\ watch \in {{p} : p \in MutableOf(kind)}
    /\ snapshot \in {FullSnapshot(kind), RequiredSnapshot(kind)}
    /\ Constructed(kind, snapshot)
    /\ handler = NoHandler
    /\ delivered = <<>>
    /\ suspended = <<>>
    /\ writer = NoWriter
    /\ calls = <<>>
    /\ NoEnumeration
    /\ last = NoLast

NextSet ==
    \/ RegisterListener
    \/ ConstructorLookupResolved
    \/ ConstructorLookupRejected
    \/ Set
    \/ IssueSet
    \/ SetResolves
    \/ SetRejects
    \/ Notify

SpecSet == InitSet /\ [][NextSet]_vars

\* C8: in the state directly after a setter was called with v, the field reads
\* v while the remote call it started has not been issued: setProperty still
\* awaits the proxy object (all nine mutable fields, every value).
C8_SetterWritesAtOnce ==
    last.op = "set" =>
        /\ fields[last.prop] = last.value
        /\ calls # <<>>
        /\ calls[Len(calls)].prop = last.prop
        /\ calls[Len(calls)].value = last.value
        /\ calls[Len(calls)].stage = "proxy"

\* A setter was just called with a value the field did not hold at construction.
C8_Witness ==
    /\ last.op = "set"
    /\ ~last.unchanged
    /\ last.value # snapshot.props[last.prop]
    /\ fields[last.prop] = last.value

\* C9: a failing remote set leaves every field as it is (the setter's write is
\* not rolled back) and raises no 'change' event; and a mutable field changes
\* only in a setter call for it or in the handling of a matching notification
\* that names it, so nothing afterwards brings it back to the remote value.
C9_FailedSetNotRolledBack ==
    [][/\ (Len(calls') < Len(calls) /\ last'.op = "failed") =>
              (fields' = fields /\ last'.emitted = 0)
       /\ \A p \in MutableOf(kind) :
              fields'[p] # fields[p] =>
                  \/ /\ last'.op = "set"
                     /\ last'.prop = p
                     /\ Len(calls') = Len(calls) + 1
                  \/ /\ last'.op = "notify"
                     /\ last'.iface = Iface(kind)
                     /\ p \in Keys(last.changed)']_vars

\* A remote set failed and the field still holds the setter's value, which is
\* not the value of the snapshot.
C9_Witness ==
    /\ last.op = "failed"
    /\ fields[last.prop] = last.value
    /\ last.value # snapshot.props[last.prop]
    /\ calls = <<>>

(***************************************************************************)
(* Device.allOfAdapter                                                     *)
(***************************************************************************)
\* Object paths, each with its characters: the text up to the adapter's index
\* is one token, since every path here shares it.
PathChars ==
    [p \in {"/org/bluez/hci0", "/org/bluez/hci1", "/org/bluez/hci10",
            "/org/bluez/hci0/dev_X", "/org/bluez/hci0/dev_Y",
            "/org/bluez/hci1/dev_X", "/org/bluez/hci10/dev_X"} |->
        CASE p = "/org/bluez/hci0" -> <<"/org/bluez", "/hci", "0">>
          [] p = "/org/bluez/hci1" -> <<"/org/bluez", "/hci", "1">>
          [] p = "/org/bluez/hci10" -> <<"/org/bluez", "/hci", "1", "0">>
          [] p = "/org/bluez/hci0/dev_X" -> <<"/org/bluez", "/hci", "0", "/dev_", "X">>
          [] p = "/org/bluez/hci0/dev_Y" -> <<"/org/bluez", "/hci", "0", "/dev_", "Y">>
          [] p = "/org/bluez/hci1/dev_X" -> <<"/org/bluez", "/hci", "1", "/dev_", "X">>
          [] p = "/org/bluez/hci10/dev_X" ->
                <<"/org/bluez", "/hci", "1", "0", "/dev_", "X">>]

ObjectPaths == DOMAIN PathChars

\* String.prototype.startsWith.
StartsWith(p, prefix) ==
    LET a == PathChars[p]
        b == PathChars[prefix]
    IN  Len(b) <= Len(a) /\ SubSeq(a, 1, Len(b)) = b

HasDeviceIface(entry) == DeviceIface \in DOMAIN entry.ifaces

\* The filters without the path test: every object with the device interface.
DeviceEntriesOfAnyAdapter(objs, adapterPath) ==
    LET picked == SelectSeq(objs, HasDeviceIface)
    IN  [i \in DOMAIN picked |->
            [path |-> picked[i].path, props |-> picked[i].ifaces[DeviceIface]]]

\* Object.entries(...).filter(path prefix).filter(has Device1).map(to [path, bag]).
DeviceEntries(objs, adapterPath) ==
    LET UnderAdapter(entry) == StartsWith(entry.path, adapterPath)
        picked == SelectSeq(SelectSeq(objs, UnderAdapter), HasDeviceIface)
    IN  [i \in DOMAIN picked |->
            [path |-> picked[i].path, props |-> picked[i].ifaces[DeviceIface]]]

\* objects.map((o) => Device.fromDBusObject(o, bus)): the Devices, or a throw.
AllOfAdapter(objs, adapterPath) ==
    LET entries == DeviceEntries(objs, adapterPath)
        made == [i \in DOMAIN entries |-> DeviceFromDBusObject(entries[i])]
    IN  IF \A i \in DOMAIN made : made[i].ok
        THEN [ok |-> TRUE,
              devices |-> [i \in DOMAIN made |->
                             [path |-> made[i].path, fields |-> made[i].fields]]]
        ELSE [ok |-> FALSE, devices |-> <<>>]

\* What a managed object may expose.  An adapter object: the adapter interface
\* with every property, or with the required ones next to another interface, or
\* with a required property missing.
AdapterObject == (AdapterIface :> FullSnapshot("Adapter").props)

AdapterShapes ==
    {AdapterObject,
     (AdapterIface :> [RequiredSnapshot("Adapter").props EXCEPT !["Alias"] = "v2"])
         @@ ("org.bluez.Media1" :> [SupportedUUIDs |-> "v2"]),
     (AdapterIface :> [p \in AdapterRequired \ {"Alias"} |-> FirstValue(p)])}

\* A device object: the device interface with every property, or with a
\* required property missing, or with the required ones next to a battery.
DeviceShapes ==
    {(DeviceIface :> b) : b \in {FullSnapshot("Device").props,
                                 [p \in DeviceRequired \ {"Alias"} |-> FirstValue(p)]}}
        \cup {(DeviceIface :> [RequiredSnapshot("Device").props EXCEPT !["Alias"] = "v2"])
                 @@ (BatteryIface :> [Percentage |-> "v1"])}

AdapterObjectPaths == {"/org/bluez/hci0", "/org/bluez/hci1", "/org/bluez/hci10"}

ObjectShapes(p) == IF p \in AdapterObjectPaths THEN AdapterShapes ELSE DeviceShapes

ObjectEntries ==
    UNION {{[path |-> p, ifaces |-> sh] : sh \in ObjectShapes(p)} : p \in ObjectPaths}

\* The answers of GetManagedObjects with n objects: each path is one object.
ManagedObjects(n) ==
    {objs \in [1..n -> ObjectEntries] :
        \A i, j \in 1..n : objs[i].path = objs[j].path => i = j}

(***************************************************************************)
(* Bluez.getAdapters                                                       *)
(***************************************************************************)
HasAdapterIface(entry) == AdapterIface \in DOMAIN entry.ifaces

\* The map without the filter: an object without the adapter interface gives
\* `ifaces['org.bluez.Adapter1']`, which is undefined, as its bag.
AdapterEntriesOfAnyObject(objs) ==
    [i \in DOMAIN objs |->
        [path |-> objs[i].path,
         props |-> IF HasAdapterIface(objs[i]) THEN objs[i].ifaces[AdapterIface]
                   ELSE NoFields]]

\* Object.entries(objects).filter(has Adapter1).map(to [path, ifaces[Adapter1]]).
AdapterEntries(objs) ==
    LET picked == SelectSeq(objs, HasAdapterIface)
    IN  [i \in DOMAIN picked |->
            [path |-> picked[i].path, props |-> picked[i].ifaces[AdapterIface]]]

\* The entities a map over `entries` constructs before it ends: all of them, or
\* those before the first entry on which fromDBusObject throws.
RECURSIVE MapFromDBusObject(_, _)
MapFromDBusObject(k, entries) ==
    IF entries = <<>> THEN [ok |-> TRUE, made |-> <<>>]
    ELSE LET first == FromDBusObject(k, Head(entries)) IN
         IF ~first.ok THEN [ok |-> FALSE, made |-> <<>>]
         ELSE LET others == MapFromDBusObject(k, Tail(entries)) IN
              [ok |-> others.ok,
               made |-> <<[path |-> first.path, fields |-> first.fields]>> \o others.made]

\* .map((entry) => Adapter.fromDBusObject(entry, this.bus)): the Adapters, or a throw.
GetAdapters(objs) ==
    LET result == MapFromDBusObject("Adapter", AdapterEntries(objs))
    IN  [ok |-> result.ok,
         adapters |-> IF result.ok THEN result.made ELSE <<>>,
         made |-> result.made]

(***************************************************************************)
(* SpecEnum: Device.allOfAdapter(adapter) over a set of managed objects    *)
(***************************************************************************)
InitEnum ==
    /\ kind \in {"Adapter", "Device"}
    /\ watch = {}
    /\ snapshot = [path |-> "", props |-> NoFields]
    /\ path = ""
    /\ built = "no"
    /\ fields = NoFields
    /\ listener = "none"
    /\ lookup = NoLookup
    /\ handler = NoHandler
    /\ delivered = <<>>
    /\ suspended = <<>>
    /\ writer = NoWriter
    /\ calls = <<>>
    /\ \E n \in 0..MaxObjects : objects \in ManagedObjects(n)
    /\ adapter \in IF kind = "Device" THEN AdapterPaths ELSE {""}
    /\ query = "idle"
    /\ devices = <<>>
    /\ adapters = <<>>
    /\ queries = 0
    /\ constructed = <<>>
    /\ subscribed = 0
    /\ subscriptions = <<>>
    /\ remote = ""
    /\ signals = <<>>
    /\ sync = NoSync
    /\ reads = <<>>
    /\ last = NoLast

\* Device.allOfAdapter(adapter) is called: it awaits the proxy and the query.
CallAllOfAdapter ==
    /\ kind = "Device"
    /\ query = "idle"
    /\ query' = "proxy"
    /\ UNCHANGED <<inputVars, entityVars, notifyVars, calls, reads, objects, adapter, devices,
                   adapters, queries, constructed, subscribed, subscriptions, remote,
                   signals, sync, last>>

\* bluez.getAdapters() is called: it awaits the proxy and the query.
CallGetAdapters ==
    /\ kind = "Adapter"
    /\ query = "idle"
    /\ query' = "proxy"
    /\ UNCHANGED <<inputVars, entityVars, notifyVars, calls, reads, objects, adapter, devices,
                   adapters, queries, constructed, subscribed, subscriptions, remote,
                   signals, sync, last>>

\* getProxyObject resolved: objManager.GetManagedObjects() is called and awaited.
IssueQuery ==
    /\ query = "proxy"
    /\ query' = "pending"
    /\ queries' = queries + 1
    /\ UNCHANGED <<inputVars, entityVars, notifyVars, calls, reads, objects, adapter, devices,
                   adapters, constructed, subscribed, subscriptions, remote,
                   signals, sync, last>>

\* GetManagedObjects resolved: filter, map, construct; a fromDBusObject that
\* throws rejects the call.
QueryResolves ==
    /\ query = "pending"
    /\ IF kind = "Device"
       THEN LET result == AllOfAdapter(objects, adapter) IN
            /\ query' = IF result.ok THEN "resolved" ELSE "threw"
            /\ devices' = result.devices
            /\ adapters' = adapters
            /\ constructed' = MapFromDBusObject("Device", DeviceEntries(objects, adapter)).made
       ELSE LET result == GetAdapters(objects) IN
            /\ query' = IF result.ok THEN "resolved" ELSE "threw"
            /\ adapters' = result.adapters
            /\ devices' = devices
            /\ constructed' = result.made
    /\ UNCHANGED <<inputVars, entityVars, notifyVars, calls, reads, objects, adapter, queries,
                   subscribed, subscriptions, remote,
                   signals, sync, last>>

\* What the call does when an awaited getProxyObject or GetManagedObjects
\* rejects, were it to try again.
QueryFailureRetried(stage) == IF stage = "pending" THEN "proxy" ELSE "failed"

\* An awaited call rejects: the async function rejects with that error.
QueryFailure(stage) == "failed"

\* getProxyObject or GetManagedObjects rejected.
QueryRejects ==
    /\ query \in {"proxy", "pending"}
    /\ query' = QueryFailure(query)
    /\ UNCHANGED <<inputVars, entityVars, notifyVars, calls, reads, objects, adapter, devices,
                   adapters, queries, constructed, subscribed, subscriptions, remote,
                   signals, sync, last>>

\* listenForChanges of a constructed entity: getProxyObject resolved and the
\* PropertiesChanged listener is registered.
OpenSubscription ==
    /\ subscribed < Len(constructed)
    /\ subscribed' = subscribed + 1
    /\ subscriptions' = Append(subscriptions, [path |-> constructed[subscribed + 1].path])
    /\ UNCHANGED <<inputVars, entityVars, notifyVars, calls, reads, objects, adapter, query,
                   devices, adapters, queries, constructed, remote, signals, sync, last>>

NextEnum ==
    \/ CallAllOfAdapter
    \/ CallGetAdapters
    \/ IssueQuery
    \/ QueryResolves
    \/ QueryRejects
    \/ OpenSubscription

SpecEnum == InitEnum /\ [][NextEnum]_vars

\* The managed objects the claim selects: under the adapter's path and exposing
\* the device interface.
IsDeviceOfAdapter(entry) ==
    /\ StartsWith(entry.path, adapter)
    /\ DeviceIface \in DOMAIN entry.ifaces

\* The Device that fromDBusObject returns for a bag: every field from the bag,
\* null for an absent property, the adapter reference not yet resolved.
BuiltFromBag(device, entry) ==
    /\ device.path = entry.path
    /\ \A p \in DeviceProps :
          device.fields[p] =
              IF p = "Adapter" THEN Unset
              ELSE IF p \in DOMAIN entry.ifaces[DeviceIface]
                   THEN entry.ifaces[DeviceIface][p]
                   ELSE Null

\* The list holds, in the order of the query, one Device per selected object,
\* built from that object's device bag, and nothing else.
ListsDevicesOfAdapter ==
    LET selected == SelectSeq(objects, IsDeviceOfAdapter) IN
    /\ Len(devices) = Len(selected)
    /\ \A i \in DOMAIN selected : BuiltFromBag(devices[i], selected[i])

SelectedBagsComplete ==
    \A i \in DOMAIN objects :
        IsDeviceOfAdapter(objects[i]) =>
            DeviceRequired \subseteq DOMAIN objects[i].ifaces[DeviceIface]

SegmentStarts == {"/org/bluez", "/hci", "/dev_"}

\* p lies below parent in the object-path hierarchy: parent, then "/", then more.
IsChildPath(p, parent) ==
    LET a == PathChars[p]
        b == PathChars[parent]
    IN  /\ Len(b) < Len(a)
        /\ SubSeq(a, 1, Len(b)) = b
        /\ a[Len(b) + 1] \in SegmentStarts

\* C11 (as claimed): every Device that allOfAdapter(adapter) returns has a path
\* that is a child of adapter.path in the object-path hierarchy, so no device
\* of another adapter is returned.
C11_ReturnedDevicesAreChildren ==
    (kind = "Device" /\ query = "resolved") =>
        \A i \in DOMAIN devices : IsChildPath(devices[i].path, adapter)

\* allOfAdapter for hci1 returned the device of hci10.
C11_DeviceOfOtherAdapterReturned ==
    /\ kind = "Device"
    /\ query = "resolved"
    /\ adapter = "/org/bluez/hci1"
    /\ \E i \in DOMAIN devices : devices[i].path = "/org/bluez/hci10/dev_X"

(***************************************************************************)
(* Claims about Bluez.getAdapters and a failing query (SpecEnum)           *)
(***************************************************************************)
\* The Adapter that fromDBusObject returns for an object's adapter bag: every
\* field from that bag, null for the absent Modalias.
BuiltFromAdapterBag(made, entry) ==
    /\ made.path = entry.path
    /\ DOMAIN made.fields = AdapterProps
    /\ \A p \in AdapterProps :
          made.fields[p] =
              IF p \in DOMAIN entry.ifaces[AdapterIface]
              THEN entry.ifaces[AdapterIface][p]
              ELSE Null

ExposesAdapterIface(entry) == AdapterIface \in DOMAIN entry.ifaces

\* The list holds, in the order of the query, one Adapter per object with the
\* adapter interface, built from that object's adapter bag, and nothing else.
ListsAdapters ==
    LET selected == SelectSeq(objects, ExposesAdapterIface) IN
    /\ Len(adapters) = Len(selected)
    /\ \A i \in DOMAIN selected : BuiltFromAdapterBag(adapters[i], selected[i])

AdapterBagsComplete ==
    \A i \in DOMAIN objects :
        ExposesAdapterIface(objects[i]) =>
            AdapterRequired \subseteq DOMAIN objects[i].ifaces[AdapterIface]

\* C12 (as claimed): a call of getAdapters whose query was answered has issued
\* exactly one managed-objects query and returns exactly one Adapter per object
\* with the adapter interface, built from the adapter bag only; objects without
\* the interface yield none.
C12_ListsExactlyAdapters ==
    (kind = "Adapter" /\ query \in {"resolved", "threw"}) =>
        /\ query = "resolved"
        /\ queries = 1
        /\ ListsAdapters

\* C12 (amended): the same provided the adapter bag of every object with the
\* adapter interface carries all required properties; otherwise the call fails
\* and returns nothing.  One query is issued in either case.
C12_ListsAdaptersWhenBagsComplete ==
    kind = "Adapter" =>
        /\ query \in {"pending", "resolved", "threw"} => queries = 1
        /\ queries <= 1
        /\ query = "resolved" => (ListsAdapters /\ AdapterBagsComplete)
        /\ query = "threw" => (adapters = <<>> /\ ~AdapterBagsComplete)

\* getAdapters returned two Adapters, one of an object that also exposes another
\* interface, and none for a device object of the same answer.
C12_Witness ==
    /\ kind = "Adapter"
    /\ query = "resolved"
    /\ queries = 1
    /\ Len(adapters) = 2
    /\ \E i \in DOMAIN objects : ~ExposesAdapterIface(objects[i])
    /\ \E i \in DOMAIN objects :
          /\ ExposesAdapterIface(objects[i])
          /\ "org.bluez.Media1" \in DOMAIN objects[i].ifaces
          /\ \E j \in DOMAIN adapters :
                /\ adapters[j].path = objects[i].path
                /\ adapters[j].fields["Alias"] = "v2"
                /\ adapters[j].fields["Modalias"] = Null

\* C13: when the managed-objects query of getAdapters or allOfAdapter fails the
\* call has failed: no entity has been constructed, none is returned and no
\* listener is registered; and GetManagedObjects is never called a second time.
C13_FailedQueryEndsCall ==
    /\ queries <= 1
    /\ query = "failed" =>
          /\ constructed = <<>>
          /\ subscribed = 0
          /\ devices = <<>>
          /\ adapters = <<>>

\* The one query failed although its answer would have held an entity to build.
C13_Witness ==
    /\ query = "failed"
    /\ queries = 1
    /\ \E i \in DOMAIN objects :
          IF kind = "Device" THEN IsDeviceOfAdapter(objects[i])
          ELSE ExposesAdapterIface(objects[i])

(***************************************************************************)
(* Battery.ofDevice                                                        *)
(***************************************************************************)
\* `objects[device.path]`: the interfaces of the object, or undefined.
ObjectAt(objs, p) ==
    LET AtPath(entry) == entry.path = p
        found == SelectSeq(objs, AtPath)
    IN  IF found = <<>> THEN [defined |-> FALSE, ifaces |-> NoFields]
        ELSE [defined |-> TRUE, ifaces |-> found[1].ifaces]

\* An ofDevice that goes on to read the properties whatever the object exposes.
BatteryCheckSkipped(objs, p) == "ok"

\* `if (!Object.keys(object).includes('org.bluez.Battery1')) throw new Error(...)`;
\* Object.keys(undefined) throws a TypeError.
BatteryCheck(objs, p) ==
    LET object == ObjectAt(objs, p) IN
    IF ~object.defined THEN "TypeError"
    ELSE IF BatteryIface \notin DOMAIN object.ifaces THEN "Error"
    ELSE "ok"

\* The battery properties of the remote object at p.
RemoteBattery(objs, p) ==
    LET object == ObjectAt(objs, p) IN
    IF object.defined /\ BatteryIface \in DOMAIN object.ifaces
    THEN object.ifaces[BatteryIface]
    ELSE NoFields

\* What the bus may answer to propManager.Get('org.bluez.Battery1', prop): the
\* value of a property the object exposes; for one it does not expose, an error
\* reply (the call rejects) or a reply that carries no value.
RemoteGet(objs, p, prop) ==
    IF prop \in DOMAIN RemoteBattery(objs, p)
    THEN {[ok |-> TRUE, value |-> RemoteBattery(objs, p)[prop]]}
    ELSE {[ok |-> FALSE, value |-> Unset], [ok |-> TRUE, value |-> Unset]}

\* The data object handed to the constructor: a property read as undefined is
\* as good as absent.
WithRead(data, prop, value) ==
    IF value = Unset THEN data
    ELSE [data EXCEPT !.props = (prop :> value) @@ @]

BatteryShapes ==
    {(DeviceIface :> RequiredSnapshot("Device").props)}
        \cup {(DeviceIface :> RequiredSnapshot("Device").props)
                 @@ (BatteryIface :> [Percentage |-> pc]) : pc \in ValuesOf("Percentage")}
        \cup {(DeviceIface :> RequiredSnapshot("Device").props)
                 @@ (BatteryIface :> [Percentage |-> pc, Source |-> src]) :
                     pc \in ValuesOf("Percentage"), src \in ValuesOf("Source")}

\* What GetManagedObjects may answer: the adapter alone (the device is gone),
\* or the adapter and the device, with or without a battery.
BatteryAnswers ==
    {<<[path |-> "/org/bluez/hci0", ifaces |-> AdapterObject]>>}
        \cup {<<[path |-> "/org/bluez/hci0", ifaces |-> AdapterObject],
                [path |-> PathOf("Battery"), ifaces |-> sh]>> : sh \in BatteryShapes}

(***************************************************************************)
(* SpecBattery: Battery.ofDevice(device) for the device at PathOf, and the *)
(* notifications the Battery it returns then handles.                      *)
(***************************************************************************)
InitBattery ==
    /\ kind = "Battery"
    /\ watch \in WatchSets(kind)
    /\ snapshot = [path |-> PathOf(kind), props |-> NoFields]
    /\ path = ""
    /\ built = "no"
    /\ fields = NoFields
    /\ listener = "none"
    /\ lookup = NoLookup
    /\ handler = NoHandler
    /\ delivered = <<>>
    /\ suspended = <<>>
    /\ writer = NoWriter
    /\ calls = <<>>
    /\ objects \in BatteryAnswers
    /\ adapter = ""
    /\ query = "idle"
    /\ devices = <<>>
    /\ adapters = <<>>
    /\ queries = 0
    /\ constructed = <<>>
    /\ subscribed = 0
    /\ subscriptions = <<>>
    /\ remote = ""
    /\ signals = <<>>
    /\ sync = NoSync
    /\ reads = <<>>
    /\ last = NoLast

\* Battery.ofDevice(device) is called: it awaits the proxy of '/'.
CallOfDevice ==
    /\ kind = "Battery"
    /\ query = "idle"
    /\ query' = "proxy"
    /\ UNCHANGED <<inputVars, entityVars, notifyVars, calls, reads, objects, adapter,
                   devices, adapters, queries, constructed, subscribed, subscriptions, remote,
                   signals, sync, last>>

\* GetManagedObjects resolved: the check of the battery interface, then the
\* await of the device's proxy object.
ObjectsAnswered ==
    /\ kind = "Battery"
    /\ query = "pending"
    /\ query' = IF BatteryCheck(objects, snapshot.path) = "ok" THEN "deviceProxy" ELSE "threw"
    /\ UNCHANGED <<inputVars, entityVars, notifyVars, calls, reads, objects, adapter,
                   devices, adapters, queries, constructed, subscribed, subscriptions, remote,
                   signals, sync, last>>

\* The device's proxy resolved: `await getProperty('Percentage')`.
ReadPercentage ==
    /\ query = "deviceProxy"
    /\ query' = "getPercentage"
    /\ reads' = Append(reads, "Percentage")
    /\ UNCHANGED <<inputVars, entityVars, notifyVars, calls, objects, adapter,
                   devices, adapters, queries, constructed, subscribed, subscriptions, remote,
                   signals, sync, last>>

\* Get('Percentage') answered: on a value, `await getProperty('Source')`.
PercentageAnswered ==
    /\ query = "getPercentage"
    /\ \E answer \in RemoteGet(objects, snapshot.path, "Percentage") :
          IF answer.ok
          THEN /\ snapshot' = WithRead(snapshot, "Percentage", answer.value)
               /\ query' = "getSource"
               /\ reads' = Append(reads, "Source")
          ELSE /\ query' = "noproperty"
               /\ UNCHANGED <<snapshot, reads>>
    /\ UNCHANGED <<kind, watch, entityVars, notifyVars, calls, objects, adapter,
                   devices, adapters, queries, constructed, subscribed, subscriptions, remote,
                   signals, sync, last>>

\* Get('Source') answered: on an answer, `new Battery(device.path, {...})`, whose
\* constructor ends by calling listenForChanges().
SourceAnswered ==
    /\ query = "getSource"
    /\ \E answer \in RemoteGet(objects, snapshot.path, "Source") :
          IF answer.ok
          THEN /\ snapshot' = WithRead(snapshot, "Source", answer.value)
               /\ query' = "resolved"
               /\ built' = "yes"
               /\ path' = BatteryConstructor(snapshot').path
               /\ fields' = BatteryConstructor(snapshot').fields
               /\ listener' = "pending"
          ELSE /\ query' = "noproperty"
               /\ UNCHANGED <<snapshot, built, path, fields, listener>>
    /\ UNCHANGED <<kind, watch, lookup, notifyVars, calls, reads, objects, adapter,
                   devices, adapters, queries, constructed, subscribed, subscriptions, remote,
                   signals, sync, last>>

\* The device's getProxyObject or a Get rejected for a failure of the transport.
ReadRejects ==
    /\ query \in {"deviceProxy", "getPercentage", "getSource"}
    /\ query' = "failed"
    /\ UNCHANGED <<inputVars, entityVars, notifyVars, calls, reads, objects, adapter,
                   devices, adapters, queries, constructed, subscribed, subscriptions, remote,
                   signals, sync, last>>

NextBattery ==
    \/ CallOfDevice
    \/ IssueQuery
    \/ QueryRejects
    \/ ObjectsAnswered
    \/ ReadPercentage
    \/ PercentageAnswered
    \/ SourceAnswered
    \/ ReadRejects
    \/ RegisterListener
    \/ DeliverMatching

SpecBattery == InitBattery /\ [][NextBattery]_vars

(***************************************************************************)
(* Claims about Battery.ofDevice (SpecBattery)                             *)
(***************************************************************************)
\* The remote object of the device exposes the battery interface.
RemoteExposesBattery ==
    \E i \in DOMAIN objects :
        objects[i].path = snapshot.path /\ BatteryIface \in DOMAIN objects[i].ifaces

\* C14: for a device whose remote object does not expose the battery interface
\* ofDevice ends in an error once the objects are known: no Battery is built, no
\* Properties.Get is issued and no listener is started; and a Battery exists
\* only when the remote object exposed the interface.
C14_NoBatteryWithoutInterface ==
    /\ ~RemoteExposesBattery =>
          /\ query \in {"idle", "proxy", "pending", "failed", "threw"}
          /\ built = "no"
          /\ reads = <<>>
          /\ listener = "none"
    /\ built = "yes" => RemoteExposesBattery

\* ofDevice threw for a device that is among the managed objects and has no
\* battery interface.
C14_Witness ==
    /\ query = "threw"
    /\ \E i \in DOMAIN objects :
          /\ objects[i].path = snapshot.path
          /\ DeviceIface \in DOMAIN objects[i].ifaces
          /\ BatteryIface \notin DOMAIN objects[i].ifaces
    /\ built = "no"

\* The battery interface of the device exposes Percentage and no Source.
RemoteOnlyPercentage ==
    \E i \in DOMAIN objects :
        /\ objects[i].path = snapshot.path
        /\ BatteryIface \in DOMAIN objects[i].ifaces
        /\ DOMAIN objects[i].ifaces[BatteryIface] = {"Percentage"}

\* C15 (as claimed): for a battery interface with Percentage = p and no Source,
\* ofDevice, once the bus has answered its calls, has built a Battery with
\* percentage p and source null; a following notification {Percentage: q} sets
\* percentage to q, leaves source null and raises exactly one 'change' event.
C15_BatteryWithoutSourceBuilt ==
    (RemoteOnlyPercentage /\ query \in {"resolved", "noproperty"}) =>
        /\ built = "yes"
        /\ delivered = <<>> =>
              /\ fields["Percentage"] = RemoteBattery(objects, snapshot.path)["Percentage"]
              /\ fields["Source"] = Null
        /\ (Len(delivered) = 1 /\ Keys(delivered[1]) = {"Percentage"}) =>
              /\ fields["Percentage"] = delivered[1][1].value
              /\ fields["Source"] = Null
              /\ last.emitted = 1

(***************************************************************************)
(* Handlers that overlap: the listener is called for each signal as the    *)
(* bus delivers it, whether or not an earlier call still awaits its        *)
(* Adapter.fromPath.                                                       *)
(***************************************************************************)
ConstructorWrote == [p \in PropsOf(kind) |-> 0]

AssignedBy(run) == {pair.prop : pair \in run.applied}

Stamp(w, props, n) == [p \in DOMAIN w |-> IF p \in props THEN n ELSE w[p]]

\* The registered listener is called with (own interface, changed) and runs to
\* its end or to its first await.
Begin(changed) ==
    /\ listener = "registered"
    /\ LET run == OnPropertiesChanged(kind, Iface(kind), fields, changed)
           n == Len(delivered) + 1
       IN  /\ fields' = run.fields
           /\ delivered' = Append(delivered, changed)
           /\ writer' = Stamp(writer, AssignedBy(run), n)
           /\ IF run.state = "awaiting"
              THEN /\ suspended' = Append(suspended, [n |-> n, run |-> run])
                   /\ last' = last
              ELSE /\ suspended' = suspended
                   /\ last' = Handled(Iface(kind), changed, run, run.fields = fields, FALSE)
    /\ UNCHANGED <<inputVars, path, built, listener, lookup, handler, calls, enumVars>>

\* The Adapter.fromPath a handler awaits resolves: the handler assigns
\* _adapter and goes on with its remaining pairs, on the fields as they are now.
ResumeSuspended ==
    /\ \E i \in DOMAIN suspended :
          /\ suspended[i].run.state = "awaiting"
          /\ LET before == suspended[i].run
                 run == DeviceResume([before EXCEPT !.fields = fields],
                                     AdapterFromPath(Head(before.rest).value))
             IN  /\ fields' = run.fields
                 /\ writer' = Stamp(writer, AssignedBy(run) \ AssignedBy(before),
                                    suspended[i].n)
                 /\ suspended' = IF run.state = "awaiting"
                                 THEN [suspended EXCEPT ![i].run = run]
                                 ELSE Without(suspended, i)
                 /\ last' = Handled(Iface(kind), delivered[suspended[i].n], run,
                                    run.fields = fields, TRUE)
    /\ UNCHANGED <<inputVars, path, built, listener, lookup, handler, delivered, calls,
                   enumVars>>

\* The Adapter.fromPath a handler awaits rejects: the handler ends there.
RejectSuspended ==
    /\ \E i \in DOMAIN suspended :
          /\ suspended[i].run.state = "awaiting"
          /\ suspended' = [suspended EXCEPT ![i].run = DeviceReject(@)]
          /\ last' = Handled(Iface(kind), delivered[suspended[i].n],
                             DeviceReject(suspended[i].run), TRUE, TRUE)
    /\ UNCHANGED <<inputVars, entityVars, handler, delivered, writer, calls, enumVars>>

(***************************************************************************)
(* SpecRepeat: an entity handles a matching notification and then the same *)
(* notification once more.                                                 *)
(***************************************************************************)
InitRepeat ==
    /\ kind \in Kinds
    /\ watch \in WatchSets(kind)
    /\ snapshot = RequiredSnapshot(kind)
    /\ Constructed(kind, snapshot)
    /\ handler = NoHandler
    /\ delivered = <<>>
    /\ suspended = <<>>
    /\ writer = ConstructorWrote
    /\ calls = <<>>
    /\ NoEnumeration
    /\ last = NoLast

DeliverFirst ==
    /\ delivered = <<>>
    /\ \E changed \in Changes(watch) : Begin(changed)

DeliverAgain ==
    /\ Len(delivered) = 1
    /\ Begin(delivered[1])

NextRepeat ==
    \/ RegisterListener
    \/ DeliverFirst
    \/ DeliverAgain
    \/ ResumeSuspended
    \/ RejectSuspended
    \/ ConstructorLookupResolved
    \/ ConstructorLookupRejected

SpecRepeat == InitRepeat /\ [][NextRepeat]_vars

\* The fields after one handling of `changed` from the fields f, the handler
\* having run to its end.
HandledOnce(k, f, changed) ==
    LET run == OnPropertiesChanged(k, Iface(k), f, changed) IN
    IF run.state = "awaiting"
    THEN DeviceResume(run, AdapterFromPath(Head(run.rest).value)).fields
    ELSE run.fields

\* C17: when the same matching notification has been handled twice and both
\* handlers have run to their end, every field holds the value it has after one
\* handling from the constructed entity (a Device's adapter reference, which
\* the constructor's lookup writes too, holds that value or the constructor's).
C17_HandlingTwiceAsOnce ==
    (Len(delivered) = 2 /\ suspended = <<>>) =>
        LET once == HandledOnce(kind, FromDBusObject(kind, snapshot).fields, delivered[1])
        IN  \A p \in PropsOf(kind) :
                \/ fields[p] = once[p]
                \/ /\ kind = "Device" /\ p = "Adapter" /\ lookup.status = "resolved"
                   /\ fields[p] = AdapterFromPath(snapshot.props[p])

\* A Device handled twice a notification that names Adapter and, after it, a
\* property with a new value; both handlers awaited their lookup and finished.
C17_Witness ==
    /\ kind = "Device"
    /\ Len(delivered) = 2
    /\ suspended = <<>>
    /\ Len(delivered[1]) = 2
    /\ delivered[1][1].prop = "Adapter"
    /\ delivered[1][2].prop \in DeviceProps
    /\ fields[delivered[1][2].prop] = delivered[1][2].value
    /\ FromDBusObject(kind, snapshot).fields[delivered[1][2].prop] # delivered[1][2].value
    /\ fields["Adapter"] = AdapterFromPath(delivered[1][1].value)

(***************************************************************************)
(* SpecDevice: a Device, its constructor's adapter lookup, and a few       *)
(* notifications over the Adapter property and one other name, each of     *)
(* which the bus may deliver while earlier handlers still await.           *)
(***************************************************************************)
DeviceWatch == {{"Adapter", p} : p \in {"Alias", "RSSI", "AddressType"}}

InitDevice ==
    /\ kind = "Device"
    /\ watch \in DeviceWatch
    /\ snapshot = RequiredSnapshot(kind)
    /\ Constructed(kind, snapshot)
    /\ handler = NoHandler
    /\ delivered = <<>>
    /\ suspended = <<>>
    /\ writer = ConstructorWrote
    /\ calls = <<>>
    /\ NoEnumeration
    /\ last = NoLast

DeliverNext ==
    /\ Len(delivered) < MaxNotifications
    /\ \E changed \in Changes(watch) : Begin(changed)

NextDevice ==
    \/ RegisterListener
    \/ DeliverNext
    \/ ResumeSuspended
    \/ RejectSuspended
    \/ ConstructorLookupResolved
    \/ ConstructorLookupRejected

SpecDevice == InitDevice /\ [][NextDevice]_vars

\* C16: from the end of construction until a lookup completes, the Device's
\* adapter reference is unset while every other field that no notification has
\* assigned since holds its snapshot value; and the reference changes only in a step in
\* which the constructor's lookup or a handler's lookup resolves.
C16_AdapterUnsetUntilLookup ==
    /\ []((lookup.status # "resolved" /\ writer["Adapter"] = 0) =>
             /\ fields["Adapter"] = Unset
             /\ \A p \in DeviceProps \ {"Adapter"} :
                   writer[p] = 0 => fields[p] = SnapshotValue(p))
    /\ [][fields'["Adapter"] # fields["Adapter"] =>
             \/ lookup.status = "pending" /\ lookup'.status = "resolved"
             \/ \E i \in DOMAIN suspended :
                   /\ suspended[i].run.state = "awaiting"
                   /\ Head(suspended[i].run.rest).prop = "Adapter"
                   /\ suspended' = Without(suspended, i)]_vars

\* The listener is registered and has handled a notification of another
\* property while the constructor's lookup is pending: the reference is unset.
C16_Witness ==
    /\ lookup.status = "pending"
    /\ listener = "registered"
    /\ Len(delivered) >= 1
    /\ suspended = <<>>
    /\ fields["Adapter"] = Unset
    /\ \E p \in DeviceProps \ {"Adapter"} : fields[p] # SnapshotValue(p)

\* The delivered notifications that name the property p.
Naming(p) == {n \in DOMAIN delivered : \E j \in DOMAIN delivered[n] : delivered[n][j].prop = p}

Latest(S) == CHOOSE n \in S : \A o \in S : o <= n

\* C18: once every handler of a Device has finished, every field some
\* notification named holds the value of the last-delivered notification that
\* named it (the adapter reference, which the constructor's lookup writes too,
\* holds that value or the constructor's); and no step assigns a field on
\* behalf of a notification delivered before the one that assigned it last.
C18_NotificationsInDeliveryOrder ==
    /\ [](suspended = <<>> =>
             \A p \in DeviceProps :
                 Naming(p) # {} =>
                     \/ fields[p] = HandledOnce(kind, fields, delivered[Latest(Naming(p))])[p]
                     \/ /\ p = "Adapter" /\ lookup.status = "resolved"
                        /\ fields[p] = AdapterFromPath(snapshot.props[p]))
    /\ [][\A p \in DOMAIN writer : writer'[p] >= writer[p]]_vars

\* A handler that awaited its lookup resumed and assigned a field that the
\* handler of a later notification had already assigned.
C18_EarlierAssignedAfterLater ==
    /\ suspended = <<>>
    /\ \E p \in DeviceProps \ {"Adapter"} :
          /\ Naming(p) # {}
          /\ writer[p] < Latest(Naming(p))
          /\ fields[p] # HandledOnce(kind, fields, delivered[Latest(Naming(p))])[p]

\* The adapter path the Device was told last: the one in the latest
\* notification that named Adapter, or the snapshot's.
AdapterPair(changed) == CHOOSE j \in DOMAIN changed : changed[j].prop = "Adapter"

MostRecentAdapterPath ==
    IF Naming("Adapter") = {}
    THEN snapshot.props["Adapter"]
    ELSE LET changed == delivered[Latest(Naming("Adapter"))]
         IN  changed[AdapterPair(changed)].value

\* C19: once the constructor's lookup and the lookup of every Adapter
\* notification of a Device have resolved, the adapter reference is the Adapter
\* at the most recent adapter path; and no lookup that resolves writes the
\* reference after a lookup started later has written it.
C19_NewestLookupWins ==
    /\ []((lookup.status = "resolved" /\ suspended = <<>>) =>
             fields["Adapter"] = AdapterFromPath(MostRecentAdapterPath))
    /\ [][/\ writer'["Adapter"] >= writer["Adapter"]
          /\ (lookup.status = "pending" /\ lookup'.status = "resolved") =>
                 writer["Adapter"] = 0]_vars

\* Every lookup has resolved and the reference is not the Adapter at the most
\* recent adapter path.
C19_OlderLookupOverwrote ==
    /\ lookup.status = "resolved"
    /\ suspended = <<>>
    /\ Naming("Adapter") # {}
    /\ fields["Adapter"] # AdapterFromPath(MostRecentAdapterPath)

(***************************************************************************)
(* SpecListen: an entity from the return of its constructor on.  The       *)
(* constructor calls listenForChanges without awaiting it, and             *)
(* listenForChanges awaits getProxyObject before it registers the          *)
(* listener; the remote object may change and signal at any time.          *)
(***************************************************************************)
InitListen ==
    /\ kind \in Kinds
    /\ watch \in WatchSets(kind)
    /\ snapshot = RequiredSnapshot(kind)
    /\ Constructed(kind, snapshot)
    /\ handler = NoHandler
    /\ delivered = <<>>
    /\ suspended = <<>>
    /\ writer = ConstructorWrote
    /\ calls = <<>>
    /\ NoEnumeration
    /\ last = NoLast

Unheard(changed) ==
    [NoLast EXCEPT !.op = "unheard", !.iface = Iface(kind), !.changed = changed]

\* PropertiesChanged(own interface, changed) is signalled for the entity's path
\* while listenForChanges still awaits getProxyObject: no listener is called.
DeliverUnheard ==
    /\ built = "yes"
    /\ listener = "pending"
    /\ Len(delivered) < MaxNotifications
    /\ \E changed \in Changes(watch) :
          /\ delivered' = Append(delivered, changed)
          /\ last' = Unheard(changed)
    /\ UNCHANGED <<inputVars, entityVars, handler, suspended, writer, calls, enumVars>>

NextListen ==
    \/ RegisterListener
    \/ DeliverUnheard
    \/ DeliverNext
    \/ ResumeSuspended
    \/ RejectSuspended
    \/ ConstructorLookupResolved
    \/ ConstructorLookupRejected

SpecListen == InitListen /\ [][NextListen]_vars

\* C20: every notification of the entity's own interface signalled for its
\* path after the constructor returned is handled by the entity's listener;
\* and when one such notification was signalled, the listener is registered and
\* no handler is unfinished, every field holds the value one handling of the
\* notification gives it (a Device's adapter reference holds that value or the
\* constructor's).
C20_NoNotificationLost ==
    /\ [](/\ listener = "registered"
          /\ Len(delivered) = 1
          /\ suspended = <<>>
          => LET once == HandledOnce(kind, FromDBusObject(kind, snapshot).fields,
                                     delivered[1])
             IN  \A p \in PropsOf(kind) :
                     \/ fields[p] = once[p]
                     \/ /\ kind = "Device" /\ p = "Adapter" /\ lookup.status = "resolved"
                        /\ fields[p] = AdapterFromPath(snapshot.props[p]))
    /\ [][Len(delivered') > Len(delivered) =>
              \/ last'.op = "notify"
              \/ Len(suspended') > Len(suspended)]_vars

\* A notification that changes a field was signalled before the listener was
\* registered; the listener is registered now and the field has its old value.
C20_ChangeLostBeforeRegistration ==
    /\ listener = "registered"
    /\ Len(delivered) = 1
    /\ suspended = <<>>
    /\ writer = ConstructorWrote
    /\ \E j \in DOMAIN delivered[1] :
          /\ delivered[1][j].prop \in PropsOf(kind) \ {"Adapter"}
          /\ fields[delivered[1][j].prop] # delivered[1][j].value

(***************************************************************************)
(* The frame of a setter call                                              *)
(***************************************************************************)
\* The wire type of a mutable field by its declared type.
WireTag(prop) ==
    IF prop \in {"PairableTimeout", "DiscoverableTimeout"} THEN "u"
    ELSE IF prop = "Alias" THEN "s"
    ELSE IF prop \in BoolProps THEN "b"
    ELSE "none"

\* C23: a step in which a setter is called with v changes that one field to v
\* and no other field nor the path, raises no 'change' event, and adds exactly
\* one remote set call to the calls in flight: to the entity's own path and
\* interface, for the setter's property, with v and the field's wire type;
\* and a call in flight is sent once, as it was started.
C23_SetterFrame ==
    /\ [][Len(calls') > Len(calls) =>
             LET call == calls'[Len(calls')] IN
             /\ Len(calls') = Len(calls) + 1
             /\ SubSeq(calls', 1, Len(calls)) = calls
             /\ last'.op = "set"
             /\ last'.emitted = 0
             /\ call.prop = last'.prop
             /\ call.prop \in MutableOf(kind)
             /\ call.value = last'.value
             /\ call.path = path
             /\ call.iface = Iface(kind)
             /\ call.signature = WireTag(call.prop)
             /\ path' = path
             /\ fields'[call.prop] = call.value
             /\ \A p \in PropsOf(kind) \ {call.prop} : fields'[p] = fields[p]]_vars
    /\ [][Len(calls') = Len(calls) =>
              \A i \in DOMAIN calls :
                  \/ calls'[i] = calls[i]
                  \/ /\ calls[i].stage = "proxy"
                     /\ calls'[i] = [calls[i] EXCEPT !.stage = "issued"]]_vars

\* A second setter call was just made while the first is in flight, for a
\* boolean field or a timeout, with a value the field did not hold.
C23_Witness ==
    /\ last.op = "set"
    /\ ~last.unchanged
    /\ Len(calls) = 2
    /\ calls[2].prop = last.prop
    /\ calls[2].signature \in {"b", "u"}
    /\ calls[1].stage = "issued"
    /\ fields[last.prop] = last.value

(***************************************************************************)
(* SpecLifetime: a constructed entity through every operation it has: its  *)
(* subscription, its setters and their remote calls, the handling of       *)
(* notifications, and the adapter lookups of a Device.                     *)
(***************************************************************************)
LifetimeWatch(k) ==
    CASE k = "Adapter" -> {{"Powered"}, {"Alias"}}
      [] k = "Device" -> {{"Adapter", "Trusted"}}
      [] k = "Battery" -> {BatteryProps}

InitLifetime ==
    /\ kind \in Kinds
    /\ watch \in LifetimeWatch(kind)
    /\ snapshot = RequiredSnapshot(kind)
    /\ Constructed(kind, snapshot)
    /\ handler = NoHandler
    /\ delivered = <<>>
    /\ suspended = <<>>
    /\ writer = ConstructorWrote
    /\ calls = <<>>
    /\ NoEnumeration
    /\ last = NoLast

\* listenForChanges: the awaited getProxyObject rejected; no listener is attached.
ListenRejects ==
    /\ built = "yes"
    /\ listener = "pending"
    /\ listener' = "failed"
    /\ UNCHANGED <<inputVars, path, built, fields, lookup, notifyVars, calls, enumVars, last>>

NextLifetime ==
    \/ RegisterListener
    \/ ListenRejects
    \/ Set
    \/ IssueSet
    \/ SetResolves
    \/ SetRejects
    \/ DeliverFirst
    \/ DeliverAgain
    \/ ResumeSuspended
    \/ RejectSuspended
    \/ ConstructorLookupResolved
    \/ ConstructorLookupRejected

SpecLifetime == InitLifetime /\ [][NextLifetime]_vars

\* C22: an entity has at most one PropertiesChanged listener, attached to the
\* proxy object of its own path, and it has one exactly when listenForChanges
\* has registered; once registered, the listener stays registered and no step
\* attaches another or removes it.
C22_OneListenerNeverRemoved ==
    /\ [](/\ Len(subscriptions) <= 1
          /\ listener = "registered" <=> Len(subscriptions) = 1
          /\ \A i \in DOMAIN subscriptions :
                subscriptions[i].path = path /\ path = snapshot.path)
    /\ [][listener = "registered" =>
              listener' = "registered" /\ subscriptions' = subscriptions]_vars

\* The listener is registered and the entity has since handled a notification
\* and has a setter's call in flight, or is a Battery that handled it twice.
C22_Witness ==
    /\ listener = "registered"
    /\ Len(subscriptions) = 1
    /\ Len(delivered) >= 1
    /\ suspended = <<>>
    /\ IF kind = "Battery" THEN Len(delivered) = 2 ELSE calls # <<>>

(***************************************************************************)
(* SpecSync: one mutable property of an Adapter or a Device together with  *)
(* the remote object that holds it.  The entity's setters start remote set *)
(* calls, each of which succeeds; another client of the bus may change the *)
(* property too; the remote object signals every change of the value, and  *)
(* the signals reach the entity's connection in the order they were        *)
(* emitted.                                                                *)
(***************************************************************************)
SyncWatch(k) ==
    CASE k = "Adapter" -> {{"Powered"}, {"Alias"}}
      [] k = "Device" -> {{"Trusted"}}

SyncProp == CHOOSE p \in watch : TRUE

InitSync ==
    /\ kind \in {"Adapter", "Device"}
    /\ watch \in SyncWatch(kind)
    /\ snapshot = RequiredSnapshot(kind)
    /\ Constructed(kind, snapshot)
    /\ handler = NoHandler
    /\ delivered = <<>>
    /\ suspended = <<>>
    /\ writer = ConstructorWrote
    /\ calls = <<>>
    /\ objects = <<>>
    /\ adapter = ""
    /\ query = "idle"
    /\ devices = <<>>
    /\ adapters = <<>>
    /\ queries = 0
    /\ constructed = <<>>
    /\ subscribed = 0
    /\ subscriptions = <<>>
    /\ reads = <<>>
    /\ remote = snapshot.props[SyncProp]
    /\ signals = <<>>
    /\ sync = NoSync
    /\ last = NoLast

\* The remote object takes the value v: it signals PropertiesChanged with the
\* new value when the value changed.
Emitted(v) ==
    IF v = remote THEN signals
    ELSE Append(signals, <<[prop |-> SyncProp, value |-> v]>>)

\* `entity.<prop> = v`: the field is written and setProperty is started.
CallSetter ==
    /\ built = "yes"
    /\ Len(calls) < MaxCalls
    /\ sync.emitted + Len(calls) < MaxNotifications
    /\ \E v \in ValuesOf(SyncProp) :
          LET call == SetPropertyCall(kind, path, SyncProp, v) IN
          /\ fields' = SetField(fields, SyncProp, v)
          /\ calls' = Append(calls, call)
          /\ sync' = [sync EXCEPT !.setter = v]
          /\ last' = SetObserved("set", call, fields' = fields)
    /\ UNCHANGED <<inputVars, path, built, listener, lookup, notifyVars, objects, adapter,
                   query, devices, adapters, queries, constructed, subscribed,
                   subscriptions, reads, remote, signals>>

\* setProperty: getProxyObject resolved and propManager.Set(...) is sent; the
\* remote object sets the property.  Calls reach the remote object in the
\* order they are sent.
SendSet ==
    /\ \E i \in DOMAIN calls :
          /\ calls[i].stage = "proxy"
          /\ calls' = [calls EXCEPT ![i].stage = "issued"]
          /\ remote' = calls[i].value
          /\ signals' = Emitted(calls[i].value)
          /\ sync' = [sync EXCEPT !.emitted = @ + Len(signals') - Len(signals)]
          /\ last' = SetObserved("issued", calls[i], TRUE)
    /\ UNCHANGED <<inputVars, entityVars, notifyVars, objects, adapter, query, devices,
                   adapters, queries, constructed, subscribed, subscriptions, reads>>

\* Another client of the bus changes the property.
RemoteChange ==
    /\ sync.emitted + Len(calls) < MaxNotifications
    /\ \E v \in ValuesOf(SyncProp) \ {remote} :
          /\ remote' = v
          /\ signals' = Emitted(v)
    /\ sync' = [sync EXCEPT !.emitted = @ + 1, !.foreign = TRUE]
    /\ UNCHANGED <<inputVars, entityVars, notifyVars, calls, objects, adapter, query,
                   devices, adapters, queries, constructed, subscribed, subscriptions,
                   reads, last>>

\* The oldest signal reaches the connection and the registered listener handles it.
DeliverSignal ==
    /\ listener = "registered"
    /\ signals # <<>>
    /\ LET changed == Head(signals)
           run == OnPropertiesChanged(kind, Iface(kind), fields, changed)
       IN  /\ fields' = run.fields
           /\ delivered' = Append(delivered, changed)
           /\ last' = Handled(Iface(kind), changed, run, run.fields = fields, FALSE)
    /\ signals' = Tail(signals)
    /\ UNCHANGED <<inputVars, path, built, listener, lookup, handler, suspended, writer,
                   calls, objects, adapter, query, devices, adapters, queries, constructed,
                   subscribed, subscriptions, reads, remote, sync>>

\* The oldest signal is emitted while listenForChanges still awaits
\* getProxyObject: it reaches no listener.
LoseSignal ==
    /\ listener = "pending"
    /\ signals # <<>>
    /\ signals' = Tail(signals)
    /\ sync' = [sync EXCEPT !.lost = TRUE]
    /\ last' = Unheard(Head(signals))
    /\ UNCHANGED <<inputVars, entityVars, notifyVars, calls, objects, adapter, query,
                   devices, adapters, queries, constructed, subscribed, subscriptions,
                   reads, remote>>

NextSync ==
    \/ RegisterListener
    \/ CallSetter
    \/ SendSet
    \/ SetResolves
    \/ RemoteChange
    \/ DeliverSignal
    \/ LoseSignal
    \/ ConstructorLookupResolved
    \/ ConstructorLookupRejected

SpecSync == InitSync /\ [][NextSync]_vars

\* No set call is in flight, no signal is under way, and every signal emitted
\* was handled by the listener.
Settled == calls = <<>> /\ signals = <<>> /\ ~sync.lost

\* C21: when every set call succeeded, every signal was delivered in order and
\* nothing is outstanding, the field equals the remote value; and it is the
\* value of the last setter call when only the entity's setters changed the
\* remote property.
C21_EventuallyConsistent ==
    Settled =>
        /\ fields[SyncProp] = remote
        /\ (~sync.foreign /\ sync.setter # "none") => fields[SyncProp] = sync.setter

\* The first half of C21 alone.
C21_FieldEqualsRemote == Settled => fields[SyncProp] = remote

====
